---- MODULE Spec2Model ----
(***************************************************************************)
(* Model of robotarium_gym/scenarios/CustomizedEnv/customized_warehouse.py *)
(* (class Agent and class CustomizedWarehouse).                            *)
(*                                                                         *)
(* Numbers.  The program computes in floating point arena units.  The      *)
(* model is fixed point: every length is an integer number of 1/1000 of an *)
(* arena unit (0.1 is 100, 0.05 is 50) and every angle is an integer       *)
(* number of 1/56 of a full turn, so that both a seventh and an eighth of  *)
(* a turn are exact.  Effects below 1/1000 of a unit (the rounding of      *)
(* sin(2*pi), which is -2.4e-16 in floating point) are below the           *)
(* resolution of the model.                                                *)
(*                                                                         *)
(* A pose is the triple <<x, y, theta>> of the program's numpy column      *)
(* (index 1, 2, 3 for the program's 0, 1, 2).                              *)
(***************************************************************************)
EXTENDS Integers, Sequences, FiniteSets, TLC

VARIABLES
    args,          \* the configuration object (self.args), fixed at construction
    obstacles,     \* self.obstacles, fixed at construction
    in_pose,       \* argument goal_pose / position of the call under study
    in_action,     \* argument action of generate_goal
    goal_out,      \* what generate_goal returned            (<<>> : not called)
    collide_out,   \* what _check_obstacle_collision returned (<<>> : not called)
    safe_out,      \* what _is_position_safe returned         (<<>> : not called)
    search_out,    \* the run of _find_safe_position          (<<>> : not called)
    agent_poses,   \* self.agent_poses: the pose of every agent (<<>> : None)
    loaded,        \* a.loaded of every agent
    episode_steps, \* self.episode_steps
    ret,           \* what the last call of reset or step returned
    hist,          \* history of the episode, kept for the properties only: the
                   \* number of step calls since reset (calls), the executor's
                   \* last message, whether all its messages were empty, the
                   \* loaded flags before the last call, per agent the zone
                   \* of its last load reward (0: none since reset) and the
                   \* kind of its last reward since reset (last_event: "load",
                   \* "unload", or "none"; the rewards of the configurations
                   \* are distinct and not 0, so a reward tells its kind), for
                   \* the last step the agents whose column of agent_poses
                   \* was written while the goals were computed (written)
                   \* and whether the executor left an agent at its pose
                   \* although its commanded goal was elsewhere (held)
    spawn          \* the call of _generate_safe_spawn_positions under study: its
                   \* arguments, its position (pc), its locals positions and
                   \* attempts, and how many positions the sampling loop placed

goalVars == <<in_pose, in_action, goal_out, collide_out, safe_out, search_out>>
envVars == <<agent_poses, loaded, episode_steps, ret, hist>>
vars == <<args, obstacles, goalVars, envVars, spawn>>

(***************************************************************************)
(* Bounds of the model.                                                    *)
(***************************************************************************)
\* how many grid steps outside the arena a pose handed to generate_goal may lie
OutSteps == 2
\* max_attempts of _generate_safe_spawn_positions (1000 in the program)
MaxAttempts == 3
\* how many steps beyond max_episode_steps an episode is followed
StepCap == 2
\* the largest num_robots _generate_safe_spawn_positions is called with
MaxRobots == 5

(***************************************************************************)
(* Arithmetic helpers.                                                     *)
(***************************************************************************)
Max(a, b) == IF a >= b THEN a ELSE b
Min(a, b) == IF a <= b THEN a ELSE b

\* a / b rounded to the nearest integer (b > 0)
RoundDiv(a, b) == (2 * a + b) \div (2 * b)

\* 2*pi, in 1/56 of a turn
TwoPi == 56

\* 1000 * cos and 1000 * sin of an angle given in 1/56 of a turn
CosTable ==
    <<1000, 994, 975, 944, 901, 847, 782, 707, 623, 532, 434, 330, 223, 112,
      0, -112, -223, -330, -434, -532, -623, -707, -782, -847, -901, -944, -975, -994,
      -1000, -994, -975, -944, -901, -847, -782, -707, -623, -532, -434, -330, -223, -112,
      0, 112, 223, 330, 434, 532, 623, 707, 782, 847, 901, 944, 975, 994>>
Cos1000(angle) == CosTable[(angle % TwoPi) + 1]
Sin1000(angle) == CosTable[((angle + 3 * (TwoPi \div 4)) % TwoPi) + 1]

\* np.linspace(start, stop, num): num samples, both end points included
Linspace(start, stop, num) ==
    [k \in 1..num |-> start + ((k - 1) * (stop - start)) \div (num - 1)]

(***************************************************************************)
(* class Agent                                                             *)
(***************************************************************************)
\* Agent._check_obstacle_collision: robot_radius
robot_radius == 100

\* ObstacleHit with the comparisons strict (a bug the boundary cases detect)
ObstacleHitStrict(position, obstacle) ==
    LET x == position[1]
        y == position[2]
    IN  /\ obstacle[1] - robot_radius < x
        /\ x < obstacle[1] + obstacle[3] + robot_radius
        /\ obstacle[2] - robot_radius < y
        /\ y < obstacle[2] + obstacle[4] + robot_radius

\* the test of one obstacle, lines 64-65
ObstacleHit(position, obstacle) ==
    LET x == position[1]
        y == position[2]
        obs_x == obstacle[1]
        obs_y == obstacle[2]
        obs_w == obstacle[3]
        obs_h == obstacle[4]
    IN  /\ obs_x - robot_radius <= x
        /\ x <= obs_x + obs_w + robot_radius
        /\ obs_y - robot_radius <= y
        /\ y <= obs_y + obs_h + robot_radius

\* the loop of _check_obstacle_collision from obstacle number i on
RECURSIVE CollisionLoop(_, _, _)
CollisionLoop(position, obs, i) ==
    IF i > Len(obs) THEN FALSE
    ELSE IF ObstacleHit(position, obs[i]) THEN TRUE
    ELSE CollisionLoop(position, obs, i + 1)

check_obstacle_collision(position, obs) == CollisionLoop(position, obs, 1)

\* the radii and the angles _find_safe_position walks through
Radii == <<50, 100, 150, 200>>
NumAngles == 8
Angles == Linspace(0, TwoPi, NumAngles)

\* TestPos carrying the heading of goal_pose
TestPosKeepHeading(goal_pose, radius, angle) ==
    <<goal_pose[1] + RoundDiv(radius * Cos1000(angle), 1000),
      goal_pose[2] + RoundDiv(radius * Sin1000(angle), 1000),
      goal_pose[3]>>

\* the point probed at (radius, angle) around goal_pose, lines 74-75 and 81
TestPos(goal_pose, radius, angle) ==
    <<goal_pose[1] + RoundDiv(radius * Cos1000(angle), 1000),
      goal_pose[2] + RoundDiv(radius * Sin1000(angle), 1000),
      0>>

\* the boundary test of a probed point, lines 78-79
InBounds(p, a) ==
    /\ a.LEFT <= p[1] /\ p[1] <= a.RIGHT
    /\ a.UP <= p[2] /\ p[2] <= a.DOWN

None == <<>>

\* SafeLoop walking the angles in the outer loop and the radii in the inner one
RECURSIVE SafeLoopAngleFirst(_, _, _, _, _, _)
SafeLoopAngleFirst(goal_pose, obs, a, i, k, tried) ==
    IF k > Len(Angles) THEN [pos |-> None, tried |-> tried]
    ELSE IF i > Len(Radii) THEN SafeLoopAngleFirst(goal_pose, obs, a, 1, k + 1, tried)
    ELSE LET test_pos == TestPos(goal_pose, Radii[i], Angles[k])
             now == Append(tried, [radius |-> Radii[i], angle |-> Angles[k],
                                   pos |-> test_pos])
         IN  IF InBounds(test_pos, a) /\ ~check_obstacle_collision(test_pos, obs)
             THEN [pos |-> test_pos, tried |-> now]
             ELSE SafeLoopAngleFirst(goal_pose, obs, a, i + 1, k, now)

\* The two nested loops of _find_safe_position, at radius number i and angle
\* number k, with the probes made so far.  The result records the value
\* returned (pos, None when the loops run out) and the probes made, in order.
RECURSIVE SafeLoop(_, _, _, _, _, _)
SafeLoop(goal_pose, obs, a, i, k, tried) ==
    IF i > Len(Radii) THEN [pos |-> None, tried |-> tried]
    ELSE IF k > Len(Angles) THEN SafeLoop(goal_pose, obs, a, i + 1, 1, tried)
    ELSE LET test_pos == TestPos(goal_pose, Radii[i], Angles[k])
             now == Append(tried, [radius |-> Radii[i], angle |-> Angles[k],
                                   pos |-> test_pos])
         IN  IF InBounds(test_pos, a) /\ ~check_obstacle_collision(test_pos, obs)
             THEN [pos |-> test_pos, tried |-> now]
             ELSE SafeLoop(goal_pose, obs, a, i, k + 1, now)

\* Agent._find_safe_position with its trace
SafeSearch(original_pose, goal_pose, obs, a) ==
    SafeLoop(goal_pose, obs, a, 1, 1, <<>>)

find_safe_position(original_pose, goal_pose, obs, a) ==
    SafeSearch(original_pose, goal_pose, obs, a).pos

\* self.action_id2w, line 100
action_id2w == [i \in 0..4 |->
    CASE i = 0 -> "left" [] i = 1 -> "right" [] i = 2 -> "up" [] i = 3 -> "down"
      [] OTHER -> "no_action"]

\* Snap clamping at the lower bound only
SnapLowOnly(v, lo, hi) == IF v < lo THEN lo ELSE v

\* the soft clamp of a coordinate, lines 24-25, 31-32
Snap(v, lo, hi) == IF v < lo THEN lo ELSE IF v > hi THEN hi ELSE v

\* the pose after the action's update, lines 22-42
UpdatedPose(goal_pose, action, a) ==
    LET w == action_id2w[action]
        x == goal_pose[1]
        y == goal_pose[2]
    IN  CASE w = "left"  -> <<Max(x - a.step_dist, a.LEFT), Snap(y, a.UP, a.DOWN), goal_pose[3]>>
          [] w = "right" -> <<Min(x + a.step_dist, a.RIGHT), Snap(y, a.UP, a.DOWN), goal_pose[3]>>
          [] w = "up"    -> <<Snap(x, a.LEFT, a.RIGHT), Max(y - a.step_dist, a.UP), goal_pose[3]>>
          [] w = "down"  -> <<Snap(x, a.LEFT, a.RIGHT), Min(y + a.step_dist, a.DOWN), goal_pose[3]>>
          [] OTHER       -> <<Snap(x, a.LEFT, a.RIGHT), Snap(y, a.UP, a.DOWN), goal_pose[3]>>

\* generate_goal keeping the blocked pose when the search fails
generate_goal_keep_blocked(goal_pose, action, a, obs) ==
    LET updated == UpdatedPose(goal_pose, action, a)
    IN  IF check_obstacle_collision(updated, obs)
        THEN LET safe_goal == find_safe_position(goal_pose, updated, obs, a)
             IN  IF safe_goal /= None THEN safe_goal ELSE updated
        ELSE updated

\* Agent.generate_goal
generate_goal(goal_pose, action, a, obs) ==
    LET original_pose == goal_pose
        updated == UpdatedPose(goal_pose, action, a)
    IN  IF check_obstacle_collision(updated, obs)
        THEN LET safe_goal == find_safe_position(original_pose, updated, obs, a)
             IN  IF safe_goal /= None THEN safe_goal ELSE original_pose
        ELSE updated

(***************************************************************************)
(* class CustomizedWarehouse                                               *)
(***************************************************************************)
\* the loop of _is_position_safe from obstacle number i on, lines 147-153
RECURSIVE SafeScan(_, _, _)
SafeScan(position, obs, i) ==
    IF i > Len(obs) THEN TRUE
    ELSE IF ObstacleHit(position, obs[i]) THEN FALSE
    ELSE SafeScan(position, obs, i + 1)

is_position_safe(position, obs) == SafeScan(position, obs, 1)

\* the default obstacle list of __init__, lines 106-111
DefaultObstacles ==
    << <<200, -800, 150, 1600>>, <<500, -800, 150, 1600>>,
       <<800, -800, 150, 1600>>, <<1100, -800, 150, 1600>> >>

\* self.obstacles as __init__ sets it, lines 103-111
InitObstacles(a) ==
    IF a.obstacle_positions = <<>> THEN DefaultObstacles ELSE a.obstacle_positions

\* the inset of the random spawn samples and of the fallback corners
SpawnInset == 200
CornerInset == 300

\* np.linalg.norm(p[:2] - q[:2]) squared
SqDist(p, q) == (p[1] - q[1]) * (p[1] - q[1]) + (p[2] - q[2]) * (p[2] - q[2])

\* np.linalg.norm(p[:2] - q[:2]) < d, lines 173-174
DistLess(p, q, d) == d > 0 /\ SqDist(p, q) < d * d

\* the loop over the existing positions, lines 171-176
RECURSIVE TooClose(_, _, _, _)
TooClose(position, positions, a, i) ==
    IF i > Len(positions) THEN FALSE
    ELSE IF DistLess(position, positions[i], a.start_dist) THEN TRUE
    ELSE TooClose(position, positions, a, i + 1)

\* SpawnBody without the comparison with the positions already placed
SpawnBodyNoSeparation(positions, position, obs, a) ==
    IF is_position_safe(position, obs)
    THEN Append(positions, position)
    ELSE positions

\* one pass of the sampling loop with the sample drawn, lines 166-179
SpawnBody(positions, position, obs, a) ==
    IF is_position_safe(position, obs) /\ ~TooClose(position, positions, a, 1)
    THEN Append(positions, position)
    ELSE positions

\* the boundary position for the given number of positions placed, lines 186-193
CornerPos(placed, a) ==
    CASE placed % 4 = 0 -> <<a.LEFT + CornerInset, a.UP + CornerInset, 0>>
      [] placed % 4 = 1 -> <<a.RIGHT - CornerInset, a.UP + CornerInset, 0>>
      [] placed % 4 = 2 -> <<a.LEFT + CornerInset, a.DOWN - CornerInset, 0>>
      [] OTHER          -> <<a.RIGHT - CornerInset, a.DOWN - CornerInset, 0>>

\* the filling loop, lines 184-194
RECURSIVE FillCorners(_, _, _)
FillCorners(positions, num_robots, a) ==
    IF Len(positions) < num_robots
    THEN FillCorners(Append(positions, CornerPos(Len(positions), a)), num_robots, a)
    ELSE positions

\* The values np.random.uniform(low, high) can return, in the model the two
\* end points and the middle of the interval.
UniformValues(low, high) == {low, (low + high) \div 2, high}

\* the positions one pass of the sampling loop can draw, lines 164-166
SpawnSamples(a) ==
    { <<x, y, 0>> : x \in UniformValues(a.LEFT + SpawnInset, a.RIGHT - SpawnInset),
                    y \in UniformValues(a.UP + SpawnInset, a.DOWN - SpawnInset) }

\* SamplingGoesOn without the limit on the attempts
SamplingNoLimit(positions, attempts, num_robots, max_attempts) ==
    Len(positions) < num_robots

\* the condition of the sampling loop, line 160
SamplingGoesOn(positions, attempts, num_robots, max_attempts) ==
    Len(positions) < num_robots /\ attempts < max_attempts

\* every list _generate_safe_spawn_positions can return from the given point
\* on in its sampling loop
RECURSIVE SpawnOutcomes(_, _, _, _, _, _)
SpawnOutcomes(positions, attempts, num_robots, max_attempts, obs, a) ==
    IF SamplingGoesOn(positions, attempts, num_robots, max_attempts)
    THEN UNION { SpawnOutcomes(SpawnBody(positions, position, obs, a), attempts + 1,
                               num_robots, max_attempts, obs, a) :
                 position \in SpawnSamples(a) }
    ELSE { FillCorners(positions, num_robots, a) }

\* the shift of reset, lines 208-211
ShiftPose(p, a) ==
    << p[1] + (1500 + a.LEFT) \div 2 - (1500 - a.RIGHT) \div 2,
       p[2] - (1000 + a.UP) \div 2 + (1000 - a.DOWN) \div 2,
       p[3] >>

\* the goal zones get_rewards works with, lines 267-277
GoalZones(a) ==
    IF a.goal_zones = <<>>
    THEN << <<-1500, 200, a.goal_width, 600, "load", "red">>,
            <<-1500, -800, a.goal_width, 600, "load", "red">>,
            <<200, -900, 150, 200, "unload", "green">>,
            <<500, -900, 150, 200, "unload", "green">>,
            <<800, -900, 150, 200, "unload", "green">>,
            <<1100, -900, 150, 200, "unload", "green">> >>
    ELSE a.goal_zones

\* ZoneContains with the boundaries excluded
ZoneContainsStrict(zone, pos) ==
    /\ zone[1] < pos[1] /\ pos[1] < zone[1] + zone[3]
    /\ zone[2] < pos[2] /\ pos[2] < zone[2] + zone[4]

\* the containment test of a zone, lines 287-288 and 301-302
ZoneContains(zone, pos) ==
    /\ zone[1] <= pos[1] /\ pos[1] <= zone[1] + zone[3]
    /\ zone[2] <= pos[2] /\ pos[2] <= zone[2] + zone[4]

\* the scan of the zones of one kind from zone number i on, lines 285-292 and
\* 299-306: the number of the zone the scan stops at, 0 when it runs out
RECURSIVE ZoneScan(_, _, _, _)
ZoneScan(pos, zones, kind, i) ==
    IF i > Len(zones) THEN 0
    ELSE IF Len(zones[i]) >= 5 /\ zones[i][5] = kind /\ ZoneContains(zones[i], pos)
         THEN i
         ELSE ZoneScan(pos, zones, kind, i + 1)

\* AgentReward scanning the load zones whether the agent is loaded or not
AgentRewardLoadOnly(pos, ld, a) ==
    LET zone == ZoneScan(pos, GoalZones(a), "load", 1)
    IN  IF zone /= 0
        THEN [reward |-> a.load_reward, loaded |-> TRUE, zone |-> zone]
        ELSE [reward |-> 0, loaded |-> ld, zone |-> 0]

\* the body of the loop of get_rewards for one agent, lines 280-309: the
\* reward appended, the agent's loaded flag afterwards, and the zone matched
AgentReward(pos, ld, a) ==
    IF ld
    THEN LET zone == ZoneScan(pos, GoalZones(a), "unload", 1)
         IN  IF zone /= 0
             THEN [reward |-> a.unload_reward, loaded |-> FALSE, zone |-> zone]
             ELSE [reward |-> 0, loaded |-> TRUE, zone |-> 0]
    ELSE LET zone == ZoneScan(pos, GoalZones(a), "load", 1)
         IN  IF zone /= 0
             THEN [reward |-> a.load_reward, loaded |-> TRUE, zone |-> zone]
             ELSE [reward |-> 0, loaded |-> FALSE, zone |-> 0]

\* get_rewards reading the loaded flag of the first agent for every agent
get_rewards_first_flag(poses, ld, a) ==
    [i \in 1..Len(poses) |-> AgentReward(poses[i], ld[1], a)]

\* CustomizedWarehouse.get_rewards: one AgentReward per agent
get_rewards(poses, ld, a) ==
    [i \in 1..Len(poses) |-> AgentReward(poses[i], ld[i], a)]

\* robotarium_gym.utilities.misc.get_nearest_neighbors: the num_neighbors
\* agents nearest to the agent, ordered by distance and then by index
RECURSIVE NearestFrom(_, _, _, _)
NearestFrom(poses, agent, left, num) ==
    IF num = 0 \/ left = {} THEN <<>>
    ELSE LET best == CHOOSE j \in left : \A k \in left \ {j} :
                        \/ SqDist(poses[j], poses[agent]) < SqDist(poses[k], poses[agent])
                        \/ /\ SqDist(poses[j], poses[agent]) = SqDist(poses[k], poses[agent])
                           /\ j < k
         IN  <<best>> \o NearestFrom(poses, agent, left \ {best}, num - 1)

get_nearest_neighbors(poses, agent, num_neighbors) ==
    NearestFrom(poses, agent, (1..Len(poses)) \ {agent}, num_neighbors)

\* the neighbours whose observations are appended to agent i's, lines 252-255
NbrIndices(poses, i, a) ==
    IF a.num_neighbors >= Len(poses) - 1
    THEN SelectSeq([k \in 1..Len(poses) |-> k], LAMBDA k : k /= i)
    ELSE get_nearest_neighbors(poses, i, a.num_neighbors)

\* the concatenation of the observations of the agents listed, lines 257-258
RECURSIVE ConcatObs(_, _, _)
ConcatObs(observations, nbrs, k) ==
    IF k > Len(nbrs) THEN <<>>
    ELSE observations[nbrs[k]] \o ConcatObs(observations, nbrs, k + 1)

\* CustomizedWarehouse.get_observations
get_observations(poses, ld, a) ==
    LET observations == [i \in 1..Len(poses) |-> <<poses[i][1], poses[i][2], ld[i]>>]
    IN  [i \in 1..Len(poses) |->
            observations[i] \o ConcatObs(observations, NbrIndices(poses, i, a), 1)]

\* CustomizedWarehouse._generate_step_goal_positions
generate_step_goal_positions(poses, actions, a, obs) ==
    [i \in 1..Len(poses) |-> generate_goal(poses[i], actions[i], a, obs)]

\* StepGoalStage writing the goals into self.agent_poses itself (no copy)
StepGoalStageAliased(poses, actions, a, obs) ==
    [agent_poses |-> generate_step_goal_positions(poses, actions, a, obs),
     goal |-> generate_step_goal_positions(poses, actions, a, obs)]

\* The two matrices after _generate_step_goal_positions.  goal is a deep copy
\* of self.agent_poses (line 314); generate_goal writes into the column of
\* the copy it is handed (lines 23-42) and its result is stored into the same
\* column (line 316), so self.agent_poses is what it was.
StepGoalStage(poses, actions, a, obs) ==
    [agent_poses |-> poses,
     goal |-> generate_step_goal_positions(poses, actions, a, obs)]

\* The motion executor (roboEnv.step): it is handed the commanded goals,
\* leaves every agent either at its pose or at its commanded goal, and
\* reports a termination message, empty for a normal step.
Messages == {"", "collision"}

ExecutorOutcomes(poses, goal) ==
    { [poses |-> [i \in 1..Len(poses) |-> IF i \in reached THEN goal[i] ELSE poses[i]],
       message |-> m] :
        reached \in SUBSET (1..Len(poses)), m \in Messages }

\* the reward of an abnormal end, line 232
AbortReward == -5

\* StepReturn computing the rewards whatever the message is
StepReturnAlwaysRewards(message, poses, ld, steps, a) ==
    LET obs == get_observations(poses, ld, a)
        rw == get_rewards(poses, ld, a)
    IN  [ obs |-> obs,
          rewards |-> [i \in 1..Len(poses) |-> rw[i].reward],
          terminated |-> [i \in 1..Len(poses) |-> steps > a.max_episode_steps],
          info |-> [message |-> <<>>],
          loaded |-> [i \in 1..Len(poses) |-> rw[i].loaded],
          zone |-> [i \in 1..Len(poses) |-> rw[i].zone] ]

\* StepReturn ending the episode one step early
StepReturnEarlyEnd(message, poses, ld, steps, a) ==
    LET obs == get_observations(poses, ld, a)
        rw == get_rewards(poses, ld, a)
    IN  IF message = ""
        THEN [ obs |-> obs,
               rewards |-> [i \in 1..Len(poses) |-> rw[i].reward],
               terminated |-> [i \in 1..Len(poses) |-> steps >= a.max_episode_steps],
               info |-> [message |-> <<>>],
               loaded |-> [i \in 1..Len(poses) |-> rw[i].loaded],
               zone |-> [i \in 1..Len(poses) |-> rw[i].zone] ]
        ELSE [ obs |-> obs,
               rewards |-> [i \in 1..Len(poses) |-> AbortReward],
               terminated |-> [i \in 1..Len(poses) |-> TRUE],
               info |-> [message |-> <<message>>],
               loaded |-> ld,
               zone |-> [i \in 1..Len(poses) |-> 0] ]

\* step after the executor has run, lines 224-239: what step returns (obs,
\* rewards, terminated, info), the loaded flags it leaves and, per agent, the
\* zone that rewarded it (0: none).  info.message is <<>> when info has no
\* message; dist_travelled and frames are handed through from the executor
\* and are left out.
StepReturn(message, poses, ld, steps, a) ==
    LET obs == get_observations(poses, ld, a)
        rw == get_rewards(poses, ld, a)
    IN  IF message = ""
        THEN [ obs |-> obs,
               rewards |-> [i \in 1..Len(poses) |-> rw[i].reward],
               terminated |-> [i \in 1..Len(poses) |-> steps > a.max_episode_steps],
               info |-> [message |-> <<>>],
               loaded |-> [i \in 1..Len(poses) |-> rw[i].loaded],
               zone |-> [i \in 1..Len(poses) |-> rw[i].zone] ]
        ELSE [ obs |-> obs,
               rewards |-> [i \in 1..Len(poses) |-> AbortReward],
               terminated |-> [i \in 1..Len(poses) |-> TRUE],
               info |-> [message |-> <<message>>],
               loaded |-> ld,
               zone |-> [i \in 1..Len(poses) |-> 0] ]


(***************************************************************************)
(* Configurations.                                                         *)
(***************************************************************************)
\* the arenas and step lengths the goal generator is studied with
GoalArgs ==
    { [LEFT |-> -300, RIGHT |-> 300, UP |-> -200, DOWN |-> 200, step_dist |-> 100],
      [LEFT |-> 0, RIGHT |-> 400, UP |-> -100, DOWN |-> 200, step_dist |-> 100] }

\* the obstacle lists the goal generator is studied with
GoalObstacles ==
    { <<>>,
      << <<0, -50, 100, 100>> >>,
      << <<-200, -200, 400, 300>> >>,
      << <<100, 100, 100, 0>>, <<-300, -100, 50, 100>> >> }

\* the positions a call is studied at: the grid of whole steps reaching
\* OutSteps steps outside the arena, with two headings
GridCoords(lo, hi, step) ==
    { v \in (lo - OutSteps * step)..(hi + OutSteps * step) : v % step = 0 }

GoalPoses(a) ==
    { <<x, y, th>> : x \in GridCoords(a.LEFT, a.RIGHT, a.step_dist),
                     y \in GridCoords(a.UP, a.DOWN, a.step_dist),
                     th \in {0, 7} }

(***************************************************************************)
(* The specification of the calls of class Agent and of _is_position_safe: *)
(* the configuration is drawn at the start, and one function is applied to *)
(* arguments drawn from the sets above.                                    *)
(***************************************************************************)
InitGoal ==
    /\ args \in GoalArgs
    /\ obstacles \in GoalObstacles
    /\ in_pose = <<>>
    /\ in_action = 4
    /\ goal_out = <<>>
    /\ collide_out = <<>>
    /\ safe_out = <<>>
    /\ search_out = <<>>
    /\ agent_poses = <<>>
    /\ loaded = <<>>
    /\ episode_steps = 0
    /\ ret = <<>>
    /\ hist = <<>>
    /\ spawn = <<>>

CallGenerateGoal ==
    /\ in_pose = <<>>
    /\ \E goal_pose \in GoalPoses(args), action \in 0..4 :
         /\ in_pose' = goal_pose
         /\ in_action' = action
         /\ goal_out' = generate_goal(goal_pose, action, args, obstacles)
    /\ UNCHANGED <<args, obstacles, collide_out, safe_out, search_out, envVars, spawn>>

CallCheckObstacleCollision ==
    /\ in_pose = <<>>
    /\ \E position \in GoalPoses(args) :
         /\ in_pose' = position
         /\ collide_out' = <<check_obstacle_collision(position, obstacles)>>
    /\ UNCHANGED <<args, obstacles, in_action, goal_out, safe_out, search_out, envVars, spawn>>

CallIsPositionSafe ==
    /\ in_pose = <<>>
    /\ \E position \in GoalPoses(args) :
         /\ in_pose' = position
         /\ safe_out' = <<is_position_safe(position, obstacles)>>
    /\ UNCHANGED <<args, obstacles, in_action, goal_out, collide_out, search_out, envVars, spawn>>

CallFindSafePosition ==
    /\ in_pose = <<>>
    /\ \E goal_pose \in GoalPoses(args) :
         /\ in_pose' = goal_pose
         /\ search_out' = <<SafeSearch(goal_pose, goal_pose, obstacles, args)>>
    /\ UNCHANGED <<args, obstacles, in_action, goal_out, collide_out, safe_out, envVars, spawn>>

NextGoal ==
    \/ CallGenerateGoal
    \/ CallCheckObstacleCollision
    \/ CallIsPositionSafe
    \/ CallFindSafePosition

SpecGoal == InitGoal /\ [][NextGoal]_vars

(***************************************************************************)
(* The specification of the environment: construction, then reset and step *)
(* in any order (step only after a first reset, which creates              *)
(* episode_steps and agent_poses).                                         *)
(***************************************************************************)
\* the configurations the environment is studied with
EnvArgs ==
    { \* two agents in a small arena where every move ends at a wall; a load
      \* zone along the left wall, an unload zone along the right wall and a
      \* zone list entry without a kind
      [LEFT |-> -200, RIGHT |-> 200, UP |-> -200, DOWN |-> 200,
       step_dist |-> 400, start_dist |-> 150, n_agents |-> 2, num_neighbors |-> 1,
       max_episode_steps |-> 1, load_reward |-> 1, unload_reward |-> 2,
       goal_width |-> 200, save_gif |-> FALSE,
       goal_zones |-> << <<-50, -50, 100, 100>>,
                         <<-200, -200, 100, 400, "load", "red">>,
                         <<100, -200, 100, 400, "unload", "green">> >>,
       obstacle_positions |-> << <<150, 150, 50, 50>> >>],
      \* one agent, a load zone and an unload zone that overlap
      [LEFT |-> -300, RIGHT |-> 300, UP |-> -200, DOWN |-> 200,
       step_dist |-> 100, start_dist |-> 150, n_agents |-> 1, num_neighbors |-> 1,
       max_episode_steps |-> 2, load_reward |-> 1, unload_reward |-> 2,
       goal_width |-> 200, save_gif |-> FALSE,
       goal_zones |-> << <<-100, -100, 200, 200, "load", "red">>,
                         <<0, -100, 200, 200, "unload", "green">> >>,
       obstacle_positions |-> << <<-50, 200, 100, 0>> >>],
      \* one agent without neighbours in an arena that is not centred
      [LEFT |-> 0, RIGHT |-> 600, UP |-> 100, DOWN |-> 500,
       step_dist |-> 300, start_dist |-> 150, n_agents |-> 1, num_neighbors |-> 0,
       max_episode_steps |-> 1, load_reward |-> 1, unload_reward |-> 2,
       goal_width |-> 200, save_gif |-> FALSE,
       goal_zones |-> << <<0, 100, 300, 400, "load", "red">>,
                         <<500, 100, 100, 400, "unload", "green">> >>,
       obstacle_positions |-> << <<0, 450, 50, 50>> >>] }

Init ==
    /\ args \in EnvArgs
    /\ obstacles = InitObstacles(args)
    /\ agent_poses = <<>>
    /\ loaded = [i \in 1..args.n_agents |-> FALSE]
    /\ episode_steps = 0
    /\ ret = <<>>
    /\ hist = <<>>
    /\ in_pose = <<>>
    /\ in_action = 4
    /\ goal_out = <<>>
    /\ collide_out = <<>>
    /\ safe_out = <<>>
    /\ search_out = <<>>
    /\ spawn = <<>>

\* Reset leaving the loaded flags as they are
ResetKeepsLoaded ==
    /\ episode_steps' = 0
    /\ loaded' = loaded
    /\ \E positions \in SpawnOutcomes(<<>>, 0, args.n_agents, MaxAttempts, obstacles, args) :
         agent_poses' = [i \in 1..args.n_agents |-> ShiftPose(positions[i], args)]
    /\ ret' = [call |-> "reset",
               obs |-> [i \in 1..args.n_agents |->
                          [k \in 1..(3 * (args.num_neighbors + 1)) |-> 0]]]
    /\ hist' = [calls |-> 0,
                message |-> "",
                all_empty |-> TRUE,
                loaded_before |-> loaded,
                loaded_at |-> [i \in 1..args.n_agents |-> 0],
                written |-> {},
                last_event |-> [i \in 1..args.n_agents |-> "none"],
                held |-> FALSE]
    /\ UNCHANGED <<args, obstacles, goalVars, spawn>>

\* CustomizedWarehouse.reset
Reset ==
    /\ episode_steps' = 0
    /\ loaded' = [i \in 1..args.n_agents |-> FALSE]
    /\ \E positions \in SpawnOutcomes(<<>>, 0, args.n_agents, MaxAttempts, obstacles, args) :
         agent_poses' = [i \in 1..args.n_agents |-> ShiftPose(positions[i], args)]
    /\ ret' = [call |-> "reset",
               obs |-> [i \in 1..args.n_agents |->
                          [k \in 1..(3 * (args.num_neighbors + 1)) |-> 0]]]
    /\ hist' = [calls |-> 0,
                message |-> "",
                all_empty |-> TRUE,
                loaded_before |-> loaded,
                loaded_at |-> [i \in 1..args.n_agents |-> 0],
                written |-> {},
                last_event |-> [i \in 1..args.n_agents |-> "none"],
                held |-> FALSE]
    /\ UNCHANGED <<args, obstacles, goalVars, spawn>>

\* CustomizedWarehouse.step
Step ==
    /\ ret /= <<>>
    /\ episode_steps < args.max_episode_steps + StepCap
    /\ \E actions_ \in [1..args.n_agents -> 0..4] :
       \E st \in {StepGoalStage(agent_poses, actions_, args, obstacles)} :
       \E moved \in ExecutorOutcomes(st.agent_poses, st.goal) :
       \E r \in {StepReturn(moved.message, moved.poses, loaded, episode_steps + 1, args)} :
         /\ episode_steps' = episode_steps + 1
         /\ agent_poses' = moved.poses
         /\ loaded' = r.loaded
         /\ ret' = [call |-> "step", obs |-> r.obs, rewards |-> r.rewards,
                    terminated |-> r.terminated, info |-> r.info]
         /\ hist' = [calls |-> hist.calls + 1,
                     message |-> moved.message,
                     all_empty |-> hist.all_empty /\ moved.message = "",
                     loaded_before |-> loaded,
                     loaded_at |->
                       [i \in 1..args.n_agents |->
                          IF ~loaded[i] /\ r.loaded[i] THEN r.zone[i]
                          ELSE hist.loaded_at[i]],
                     written |-> {i \in 1..args.n_agents :
                                    st.agent_poses[i] /= agent_poses[i]},
                     last_event |->
                       [i \in 1..args.n_agents |->
                          IF moved.message = "" /\ r.rewards[i] = args.load_reward
                          THEN "load"
                          ELSE IF moved.message = "" /\ r.rewards[i] = args.unload_reward
                          THEN "unload"
                          ELSE hist.last_event[i]],
                     held |-> \E i \in 1..args.n_agents :
                                  /\ st.goal[i] /= agent_poses[i]
                                  /\ moved.poses[i] = agent_poses[i]]
    /\ UNCHANGED <<args, obstacles, goalVars, spawn>>

Next ==
    \/ Reset
    \/ Step

Spec == Init /\ [][Next]_vars

(***************************************************************************)
(* The specification of _generate_safe_spawn_positions, one loop pass per  *)
(* step: the sampling loop (pc "sample"), then the filling loop (pc        *)
(* "fill"), then the return (pc "done").                                   *)
(***************************************************************************)
\* the configurations spawn generation is studied with: in the first the
\* samples are free, in the second an obstacle covers every sample, in the
\* third the arena is not centred and no separation is asked for, in the
\* fourth some samples are blocked, some are free and some free ones are
\* closer to each other than start_dist
SpawnArgs ==
    { [LEFT |-> -300, RIGHT |-> 300, UP |-> -200, DOWN |-> 200,
       step_dist |-> 100, start_dist |-> 150,
       obstacle_positions |-> << <<-50, 200, 100, 0>> >>],
      [LEFT |-> -300, RIGHT |-> 300, UP |-> -200, DOWN |-> 200,
       step_dist |-> 100, start_dist |-> 150,
       obstacle_positions |-> << <<-100, -50, 200, 100>> >>],
      [LEFT |-> 0, RIGHT |-> 600, UP |-> 0, DOWN |-> 400,
       step_dist |-> 100, start_dist |-> 0,
       obstacle_positions |-> << <<300, 300, 100, 100>> >>],
      [LEFT |-> 0, RIGHT |-> 600, UP |-> 0, DOWN |-> 500,
       step_dist |-> 100, start_dist |-> 120,
       obstacle_positions |-> << <<350, 0, 100, 100>> >>] }

InitSpawn ==
    /\ args \in SpawnArgs
    /\ obstacles = InitObstacles(args)
    /\ \E num_robots \in 1..MaxRobots, max_attempts \in 0..MaxAttempts :
         spawn = [num_robots |-> num_robots, max_attempts |-> max_attempts,
                  pc |-> "sample", positions |-> <<>>, attempts |-> 0, sampled |-> 0]
    /\ agent_poses = <<>>
    /\ loaded = <<>>
    /\ episode_steps = 0
    /\ ret = <<>>
    /\ hist = <<>>
    /\ in_pose = <<>>
    /\ in_action = 4
    /\ goal_out = <<>>
    /\ collide_out = <<>>
    /\ safe_out = <<>>
    /\ search_out = <<>>

\* one pass of the sampling loop, lines 160-179
SpawnSample ==
    /\ spawn.pc = "sample"
    /\ SamplingGoesOn(spawn.positions, spawn.attempts, spawn.num_robots, spawn.max_attempts)
    /\ \E position \in SpawnSamples(args) :
         \E placed \in {SpawnBody(spawn.positions, position, obstacles, args)} :
           spawn' = [spawn EXCEPT !.attempts = @ + 1,
                                  !.positions = placed,
                                  !.sampled = Len(placed)]
    /\ UNCHANGED <<args, obstacles, goalVars, envVars>>

\* the sampling loop ends, lines 160 and 181
SpawnSampleEnd ==
    /\ spawn.pc = "sample"
    /\ ~SamplingGoesOn(spawn.positions, spawn.attempts, spawn.num_robots, spawn.max_attempts)
    /\ spawn' = [spawn EXCEPT !.pc = "fill"]
    /\ UNCHANGED <<args, obstacles, goalVars, envVars>>

\* one pass of the filling loop, lines 184-194
SpawnFill ==
    /\ spawn.pc = "fill"
    /\ Len(spawn.positions) < spawn.num_robots
    /\ spawn' = [spawn EXCEPT !.positions =
                   Append(@, CornerPos(Len(spawn.positions), args))]
    /\ UNCHANGED <<args, obstacles, goalVars, envVars>>

\* the return, line 196
SpawnReturn ==
    /\ spawn.pc = "fill"
    /\ ~(Len(spawn.positions) < spawn.num_robots)
    /\ spawn' = [spawn EXCEPT !.pc = "done"]
    /\ UNCHANGED <<args, obstacles, goalVars, envVars>>

NextSpawn ==
    \/ SpawnSample
    \/ SpawnSampleEnd
    \/ SpawnFill
    \/ SpawnReturn

\* The call runs on its own thread of control: a pass that can be made is made.
SpecSpawn == InitSpawn /\ [][NextSpawn]_vars /\ WF_vars(NextSpawn)

(***************************************************************************)
(* Properties of class Agent and of _is_position_safe (under SpecGoal).    *)
(***************************************************************************)
\* the blocked predicate as stated: some obstacle's rectangle, inflated by 0.1
\* on every side, contains the point, boundaries included
Blocked(p, obs) ==
    \E n \in 1..Len(obs) :
        /\ obs[n][1] - 100 <= p[1] /\ p[1] <= obs[n][1] + obs[n][3] + 100
        /\ obs[n][2] - 100 <= p[2] /\ p[2] <= obs[n][2] + obs[n][4] + 100

\* C1: every pose returned by generate_goal has x in [LEFT, RIGHT] and y in
\* [UP, DOWN], for every current pose, also one that starts outside the arena.
C1_GoalInsideArena ==
    goal_out /= <<>> =>
        /\ args.LEFT <= goal_out[1] /\ goal_out[1] <= args.RIGHT
        /\ args.UP <= goal_out[2] /\ goal_out[2] <= args.DOWN

\* C2: when the updated pose is blocked, generate_goal returns the point the
\* safe-position search found, and the original pose when the search found
\* none; so the returned pose is not blocked or is the original pose.
C2_BlockedGoalReplaced ==
    goal_out /= <<>> =>
        LET updated == UpdatedPose(in_pose, in_action, args)
            found == find_safe_position(in_pose, updated, obstacles, args)
        IN  /\ (Blocked(updated, obstacles) /\ found /= None) => goal_out = found
            /\ (Blocked(updated, obstacles) /\ found = None) => goal_out = in_pose
            /\ (~Blocked(goal_out, obstacles) \/ goal_out = in_pose)

\* C2 witness: the updated pose differs from the original pose and is blocked,
\* the search found nothing, and the original pose came back.
C2_Witness ==
    /\ goal_out /= <<>>
    /\ UpdatedPose(in_pose, in_action, args) /= in_pose
    /\ Blocked(UpdatedPose(in_pose, in_action, args), obstacles)
    /\ find_safe_position(in_pose, UpdatedPose(in_pose, in_action, args),
                          obstacles, args) = None
    /\ goal_out = in_pose

\* the angle of 45 degrees, in 1/56 of a turn
Deg45 == TwoPi \div 8

\* C3: the search probes, for each radius in (0.05, 0.1, 0.15, 0.2), the eight
\* points at the angles 0, 45, ..., 315 degrees: the n-th probe made is at
\* radius number (n-1) div 8 and angle ((n-1) mod 8) * 45 degrees, and a search
\* that finds nothing has made 32 probes, in 8 distinct directions per radius.
C3_ProbesEvery45Degrees ==
    search_out /= <<>> =>
        LET tried == search_out[1].tried
        IN  /\ \A n \in 1..Len(tried) :
                 /\ tried[n].radius = Radii[((n - 1) \div 8) + 1]
                 /\ tried[n].angle = ((n - 1) % 8) * Deg45
            /\ search_out[1].pos = None =>
                 /\ Len(tried) = 32
                 /\ \A i \in 1..Len(Radii) :
                      Cardinality({ tried[n].pos : n \in (8 * i - 7)..(8 * i) }) = 8

\* the n-th probe of the schedule: radius ascending, and within one radius
\* the angles in ascending order from 0
ScheduledProbe(goal_pose, n) ==
    TestPos(goal_pose, Radii[((n - 1) \div Len(Angles)) + 1],
            Angles[((n - 1) % Len(Angles)) + 1])

Qualifies(p, obs, a) ==
    /\ a.LEFT <= p[1] /\ p[1] <= a.RIGHT
    /\ a.UP <= p[2] /\ p[2] <= a.DOWN
    /\ ~Blocked(p, obs)

\* C4: the search returns the first probe of the schedule (radius ascending,
\* angle ascending from 0 within a radius) that is inside the arena bounds
\* (inclusive) and not blocked, having probed exactly the schedule up to it,
\* and returns none exactly when no probe qualifies; the result is this
\* function of the candidate goal, the obstacles and the arena.
C4_FirstQualifyingProbe ==
    search_out /= <<>> =>
        LET r == search_out[1]
            total == Len(Radii) * Len(Angles)
            good == { n \in 1..total :
                        Qualifies(ScheduledProbe(in_pose, n), obstacles, args) }
        IN  /\ \A n \in 1..Len(r.tried) : r.tried[n].pos = ScheduledProbe(in_pose, n)
            /\ (r.pos = None) <=> (good = {})
            /\ good = {} => Len(r.tried) = total
            /\ good /= {} =>
                 \E n \in good :
                     /\ \A m \in good : n <= m
                     /\ r.pos = ScheduledProbe(in_pose, n)
                     /\ Len(r.tried) = n

\* C4 witness: a search that passed over the whole first radius and returned a
\* later probe, although a probe still later in the schedule qualifies too.
C4_Witness ==
    /\ search_out /= <<>>
    /\ search_out[1].pos /= None
    /\ Len(search_out[1].tried) > Len(Angles)
    /\ \E n \in (Len(search_out[1].tried) + 1)..(Len(Radii) * Len(Angles)) :
           /\ Qualifies(ScheduledProbe(in_pose, n), obstacles, args)
           /\ ScheduledProbe(in_pose, n) /= search_out[1].pos

\* C5: _check_obstacle_collision returns exactly "blocked" (some obstacle with
\* ox - 0.1 <= x <= ox + w + 0.1 and oy - 0.1 <= y <= oy + h + 0.1) and
\* _is_position_safe exactly its negation, for every point and obstacle list.
C5_BlockedIffInflatedRectangle ==
    /\ collide_out /= <<>> => collide_out[1] = Blocked(in_pose, obstacles)
    /\ safe_out /= <<>> => safe_out[1] = ~Blocked(in_pose, obstacles)

\* C5 witness: a point on the boundary of an inflated rectangle (x = ox - 0.1)
\* was reported as colliding.
C5_Witness ==
    /\ collide_out = <<TRUE>>
    /\ \E n \in 1..Len(obstacles) :
           /\ in_pose[1] = obstacles[n][1] - 100
           /\ obstacles[n][2] - 100 <= in_pose[2]
           /\ in_pose[2] <= obstacles[n][2] + obstacles[n][4] + 100
    /\ \A n \in 1..Len(obstacles) :
           ~ ( /\ obstacles[n][1] - 100 < in_pose[1]
               /\ in_pose[1] < obstacles[n][1] + obstacles[n][3] + 100 )

\* a coordinate after no_action as stated: unchanged inside its bound
\* interval, set to the nearer bound outside
Nearer(v, lo, hi) == IF v < lo THEN lo ELSE IF v > hi THEN hi ELSE v

\* C13 as stated: generate_goal with no_action returns the current x and y for
\* every current pose inside the arena bounds; a coordinate changes only when it
\* was outside its bound interval, and is then set to the nearer bound.
C13_NoActionKeepsPosition ==
    (goal_out /= <<>> /\ action_id2w[in_action] = "no_action") =>
        /\ goal_out[1] = Nearer(in_pose[1], args.LEFT, args.RIGHT)
        /\ goal_out[2] = Nearer(in_pose[2], args.UP, args.DOWN)

\* C13 amended: as stated when the pose with its coordinates set into the
\* bounds is not blocked; when it is blocked, the result is the point the
\* safe-position search finds around it, and the current pose when it finds
\* none.
C13_NoActionKeepsUnblockedPosition ==
    (goal_out /= <<>> /\ action_id2w[in_action] = "no_action") =>
        LET snapped == <<Nearer(in_pose[1], args.LEFT, args.RIGHT),
                         Nearer(in_pose[2], args.UP, args.DOWN), in_pose[3]>>
            found == find_safe_position(in_pose, snapped, obstacles, args)
        IN  IF ~Blocked(snapped, obstacles)
            THEN goal_out[1] = snapped[1] /\ goal_out[2] = snapped[2]
            ELSE goal_out = (IF found /= None THEN found ELSE in_pose)

\* C13 witness: no_action on a pose above the arena in x and inside it in y,
\* not blocked after the correction: x came back as RIGHT, y as it was.
C13_Witness ==
    /\ goal_out /= <<>>
    /\ action_id2w[in_action] = "no_action"
    /\ in_pose[1] > args.RIGHT
    /\ args.UP < in_pose[2] /\ in_pose[2] < args.DOWN
    /\ ~Blocked(<<args.RIGHT, in_pose[2], in_pose[3]>>, obstacles)
    /\ obstacles /= <<>>
    /\ goal_out[1] = args.RIGHT
    /\ goal_out[2] = in_pose[2]

\* C19: generate_goal returns the input heading when the updated pose is not
\* blocked and when the safe search fails and the original pose is restored;
\* when the safe search succeeds the returned pose has three components and
\* the heading 0, whatever the input heading was.
C19_HeadingKeptOrZero ==
    goal_out /= <<>> =>
        LET updated == UpdatedPose(in_pose, in_action, args)
            found == find_safe_position(in_pose, updated, obstacles, args)
        IN  /\ Len(goal_out) = 3
            /\ IF Blocked(updated, obstacles) /\ found /= None
               THEN goal_out[3] = 0
               ELSE goal_out[3] = in_pose[3]

\* C19 witness: a pose with a heading other than 0 whose updated pose was
\* blocked, and the search point came back with heading 0.
C19_Witness ==
    /\ goal_out /= <<>>
    /\ in_pose[3] /= 0
    /\ Blocked(UpdatedPose(in_pose, in_action, args), obstacles)
    /\ find_safe_position(in_pose, UpdatedPose(in_pose, in_action, args),
                          obstacles, args) /= None
    /\ goal_out[3] = 0
    /\ goal_out /= in_pose

(***************************************************************************)
(* Properties of reset and step (under Spec).                              *)
(***************************************************************************)
\* the rectangle test as stated: boundaries included, no radius
InRect(zone, pos) ==
    /\ zone[1] <= pos[1] /\ pos[1] <= zone[1] + zone[3]
    /\ zone[2] <= pos[2] /\ pos[2] <= zone[2] + zone[4]

\* the zones of a kind that contain the position
ZonesAt(pos, kind) ==
    { k \in 1..Len(GoalZones(args)) :
        /\ Len(GoalZones(args)[k]) >= 5
        /\ GoalZones(args)[k][5] = kind
        /\ InRect(GoalZones(args)[k], pos) }

\* the last call was a step whose executor message was empty
NormalStep == ret /= <<>> /\ ret.call = "step" /\ hist.message = ""

\* C6 as stated: in a step with an empty message an unloaded agent inside a
\* load zone becomes loaded and receives load_reward; on a later step in which
\* it is already loaded and still inside that load zone it receives 0.
C6_LoadThenZeroInSameZone ==
    NormalStep =>
        \A i \in 1..args.n_agents :
            /\ (~hist.loaded_before[i] /\ ZonesAt(agent_poses[i], "load") /= {})
                 => (loaded[i] /\ ret.rewards[i] = args.load_reward)
            /\ (hist.loaded_before[i] /\ hist.loaded_at[i] \in ZonesAt(agent_poses[i], "load"))
                 => ret.rewards[i] = 0

\* C6 amended: as stated, with the later step's reward 0 only when the agent
\* is inside no unload zone.
C6_LoadThenZeroUnlessUnloading ==
    NormalStep =>
        \A i \in 1..args.n_agents :
            /\ (~hist.loaded_before[i] /\ ZonesAt(agent_poses[i], "load") /= {})
                 => (loaded[i] /\ ret.rewards[i] = args.load_reward)
            /\ ( /\ hist.loaded_before[i]
                 /\ hist.loaded_at[i] \in ZonesAt(agent_poses[i], "load")
                 /\ ZonesAt(agent_poses[i], "unload") = {} )
                 => ret.rewards[i] = 0

\* C6 witness: an agent that was loaded in an earlier step of the episode is
\* still inside the zone that loaded it and has received 0 in this step.
C6_Witness ==
    /\ NormalStep
    /\ hist.calls >= 2
    /\ \E i \in 1..args.n_agents :
           /\ hist.loaded_before[i]
           /\ hist.loaded_at[i] \in ZonesAt(agent_poses[i], "load")
           /\ ZonesAt(agent_poses[i], "unload") = {}
           /\ ret.rewards[i] = 0

\* C7: a loaded agent inside at least one unload zone (boundaries included,
\* no radius) receives unload_reward and becomes unloaded; a loaded agent
\* inside no unload zone receives 0 and stays loaded, also inside a load zone.
C7_UnloadInsideUnloadZone ==
    NormalStep =>
        \A i \in 1..args.n_agents :
            hist.loaded_before[i] =>
                IF ZonesAt(agent_poses[i], "unload") /= {}
                THEN ret.rewards[i] = args.unload_reward /\ ~loaded[i]
                ELSE ret.rewards[i] = 0 /\ loaded[i]

\* C7 witness: a loaded agent on the boundary of an unload zone, and inside
\* the interior of none, was rewarded unload_reward and became unloaded.
C7_Witness ==
    /\ NormalStep
    /\ \E i \in 1..args.n_agents :
           /\ hist.loaded_before[i]
           /\ ~loaded[i]
           /\ ret.rewards[i] = args.unload_reward
           /\ \A k \in ZonesAt(agent_poses[i], "unload") :
                  \/ agent_poses[i][1] \in {GoalZones(args)[k][1],
                                            GoalZones(args)[k][1] + GoalZones(args)[k][3]}
                  \/ agent_poses[i][2] \in {GoalZones(args)[k][2],
                                            GoalZones(args)[k][2] + GoalZones(args)[k][4]}

\* C8: after a step whose executor message is not empty, every reward is -5,
\* every terminated flag is true, info['message'] is the message and every
\* loaded flag is what it was before the step.
C8_MessageEndsEpisode ==
    (ret /= <<>> /\ ret.call = "step" /\ hist.message /= "") =>
        /\ \A i \in 1..args.n_agents : ret.rewards[i] = -5 /\ ret.terminated[i]
        /\ Len(ret.rewards) = args.n_agents
        /\ Len(ret.terminated) = args.n_agents
        /\ ret.info.message = <<hist.message>>
        /\ loaded = hist.loaded_before

\* C8 witness: a step within max_episode_steps had a message while an unloaded
\* agent stood inside a load zone.
C8_Witness ==
    /\ ret /= <<>> /\ ret.call = "step" /\ hist.message /= ""
    /\ hist.calls <= args.max_episode_steps
    /\ \E i \in 1..args.n_agents :
           ~hist.loaded_before[i] /\ ZonesAt(agent_poses[i], "load") /= {}

\* C9: while every executor message of the episode is empty, the k-th step
\* after reset returns terminated = true for all agents iff
\* k > max_episode_steps.
C9_TerminatedIffPastLimit ==
    (ret /= <<>> /\ ret.call = "step" /\ hist.all_empty) =>
        \A i \in 1..args.n_agents :
            ret.terminated[i] <=> (hist.calls > args.max_episode_steps)

\* C9 witness: in an episode of empty messages the flags are true again on
\* the second step past the limit.
C9_Witness ==
    /\ ret /= <<>> /\ ret.call = "step" /\ hist.all_empty
    /\ hist.calls = args.max_episode_steps + 2
    /\ \A i \in 1..args.n_agents : ret.terminated[i]

\* C14: every loaded flag is false immediately after each reset, whatever it
\* was before; between resets a loaded flag changes only in a step whose
\* executor message is empty, and then to what get_rewards computes from the
\* poses the executor left.  Goal generation, observation assembly and a step
\* with a message leave every loaded flag as it was.
C14_LoadedClearedAndFramed ==
    /\ []((ret /= <<>> /\ ret.call = "reset") => \A i \in 1..args.n_agents : ~loaded[i])
    /\ [][ /\ ret'.call = "step" /\ hist'.message /= "" => loaded' = loaded
           /\ ret'.call = "step" /\ hist'.message = "" =>
                 \A i \in 1..args.n_agents :
                     loaded'[i] /= loaded[i] =>
                         /\ ret'.rewards[i] \in {args.load_reward, args.unload_reward}
                         /\ ZonesAt(agent_poses'[i],
                                    IF loaded[i] THEN "unload" ELSE "load") /= {} ]_vars

\* C14 witness: a reset has just cleared the flag of an agent that was loaded.
C14_Witness ==
    /\ ret /= <<>>
    /\ ret.call = "reset"
    /\ \E i \in 1..args.n_agents : hist.loaded_before[i] /\ ~loaded[i]

\* C15: the pose matrix is written by reset and by the executor only.  While
\* the commanded goals are computed (safe-search and revert paths included) no
\* column of agent_poses is written, the goals being produced on a copy;
\* get_observations and get_rewards leave it as the executor left it, so the
\* positions in the observations returned are those of agent_poses; and the
\* matrix has exactly num_robots columns from reset on.
C15_PoseMatrixNotWrittenByCore ==
    ret /= <<>> =>
        /\ Len(agent_poses) = args.n_agents
        /\ \A i \in 1..args.n_agents : Len(agent_poses[i]) = 3
        /\ ret.call = "step" =>
              /\ hist.written = {}
              /\ \A i \in 1..args.n_agents :
                     /\ ret.obs[i][1] = agent_poses[i][1]
                     /\ ret.obs[i][2] = agent_poses[i][2]

\* C15 witness: in a step of two agents the commanded goal of an agent was
\* not its pose, and the executor left the agent at the pose it had before.
C15_Witness ==
    /\ ret /= <<>>
    /\ ret.call = "step"
    /\ args.n_agents >= 2
    /\ hist.held
    /\ hist.written = {}

\* C16: within one step the observations are assembled after the loaded state
\* has been updated: the loaded value in each agent's observation returned by
\* step is that agent's loaded flag at the moment step returns.
C16_ObsLoadedIsCurrent ==
    (ret /= <<>> /\ ret.call = "step") =>
        \A i \in 1..args.n_agents : ret.obs[i][3] = loaded[i]

\* C17: reset and step return one observation per agent, and every such
\* observation has exactly 3 * (num_neighbors + 1) entries, for every
\* num_neighbors and robot count, also when num_neighbors is larger than the
\* robot count minus one.
C17_ObservationWidth ==
    ret /= <<>> =>
        /\ Len(ret.obs) = args.n_agents
        /\ \A i \in 1..args.n_agents :
               Len(ret.obs[i]) = 3 * (args.num_neighbors + 1)

\* the reward and the loaded flag of one agent after a normal step as stated:
\* a function of the agent's own position and own loaded flag
OwnOutcome(pos, ld) ==
    IF ld
    THEN IF ZonesAt(pos, "unload") /= {}
         THEN [reward |-> args.unload_reward, loaded |-> FALSE]
         ELSE [reward |-> 0, loaded |-> TRUE]
    ELSE IF ZonesAt(pos, "load") /= {}
         THEN [reward |-> args.load_reward, loaded |-> TRUE]
         ELSE [reward |-> 0, loaded |-> FALSE]

\* C18: for each agent the load and unload rewards between two resets
\* alternate, starting with a load: an unload reward goes only to an agent
\* whose last reward since the reset was a load reward, and a load reward
\* never to one whose last reward was a load reward.  The agents are
\* independent: an agent's reward and loaded flag after a step depend on its
\* own position and own loaded flag only.
C18_LoadUnloadAlternate ==
    [][ (ret'.call = "step" /\ hist'.message = "") =>
          \A i \in 1..args.n_agents :
              /\ ret'.rewards[i] = args.unload_reward => hist.last_event[i] = "load"
              /\ ret'.rewards[i] = args.load_reward => hist.last_event[i] /= "load"
              /\ ret'.rewards[i] = OwnOutcome(agent_poses'[i], loaded[i]).reward
              /\ loaded'[i] = OwnOutcome(agent_poses'[i], loaded[i]).loaded ]_vars

\* C18 witness: in one step of two agents an agent that had been loaded was
\* given the unload reward, while the other agent, loaded too, was given 0 and
\* stayed loaded.
C18_Witness ==
    /\ NormalStep
    /\ \E i, j \in 1..args.n_agents :
           /\ i /= j
           /\ hist.loaded_before[i] /\ ~loaded[i]
           /\ ret.rewards[i] = args.unload_reward
           /\ hist.last_event[i] = "unload"
           /\ hist.loaded_before[j] /\ loaded[j]
           /\ ret.rewards[j] = 0
           /\ hist.last_event[j] = "load"

\* C12: immediately after reset, in every arena with LEFT < RIGHT and
\* UP < DOWN, every agent's pose in agent_poses (the spawn position after the
\* shift of reset) lies inside [LEFT, RIGHT] x [UP, DOWN].
C12_SpawnPoseInsideArena ==
    (ret /= <<>> /\ ret.call = "reset" /\ args.LEFT < args.RIGHT /\ args.UP < args.DOWN) =>
        \A i \in 1..args.n_agents :
            /\ args.LEFT <= agent_poses[i][1] /\ agent_poses[i][1] <= args.RIGHT
            /\ args.UP <= agent_poses[i][2] /\ agent_poses[i][2] <= args.DOWN

(***************************************************************************)
(* Properties of _generate_safe_spawn_positions (under SpecSpawn).         *)
(***************************************************************************)
\* the four corners inset by 0.3, in the order of the number placed modulo 4
InsetCorner(placed) ==
    << IF placed % 2 = 0 THEN args.LEFT + 300 ELSE args.RIGHT - 300,
       IF placed % 4 < 2 THEN args.UP + 300 ELSE args.DOWN - 300,
       0 >>

\* C10: spawn generation terminates, draws at most max_attempts samples and
\* returns exactly n poses for every n >= 1, also when no sample is accepted:
\* the poses the sampling loop did not place are the inset corners, chosen by
\* the number of poses already placed modulo 4.
C10_SpawnReturnsExactlyN ==
    /\ <>(spawn.pc = "done")
    /\ [](spawn.attempts <= spawn.max_attempts)
    /\ [](spawn.pc = "done" =>
            /\ Len(spawn.positions) = spawn.num_robots
            /\ \A k \in (spawn.sampled + 1)..spawn.num_robots :
                   spawn.positions[k] = InsetCorner(k - 1))

\* C10 witness: a call for five robots with attempts allowed has returned
\* although no sample was accepted.
C10_Witness ==
    /\ spawn /= <<>>
    /\ spawn.pc = "done"
    /\ spawn.num_robots >= 5
    /\ spawn.max_attempts >= 1
    /\ spawn.attempts = spawn.max_attempts
    /\ spawn.sampled = 0

\* C11: in the poses returned by spawn generation, every two positions accepted
\* from random sampling are at distance >= start_dist, and every such position
\* is not blocked and lies in [LEFT+0.2, RIGHT-0.2] x [UP+0.2, DOWN-0.2]; only
\* a pair with a corner position in it may be closer than start_dist.
C11_SampledSeparatedAndSafe ==
    (spawn /= <<>> /\ spawn.pc = "done") =>
        \A k \in 1..spawn.sampled :
            /\ ~Blocked(spawn.positions[k], obstacles)
            /\ args.LEFT + 200 <= spawn.positions[k][1]
            /\ spawn.positions[k][1] <= args.RIGHT - 200
            /\ args.UP + 200 <= spawn.positions[k][2]
            /\ spawn.positions[k][2] <= args.DOWN - 200
            /\ \A j \in 1..spawn.sampled :
                   j /= k =>
                       SqDist(spawn.positions[k], spawn.positions[j])
                           >= args.start_dist * args.start_dist

\* C11 witness: a returned list with two sampled positions, a sample that was
\* turned down, and a corner position closer than start_dist to a sampled one,
\* in a configuration where some samples are blocked and some are not.
C11_Witness ==
    /\ spawn /= <<>>
    /\ spawn.pc = "done"
    /\ spawn.sampled >= 2
    /\ spawn.attempts > spawn.sampled
    /\ \E p \in SpawnSamples(args) : Blocked(p, obstacles)
    /\ \E k \in 1..spawn.sampled : \E j \in (spawn.sampled + 1)..spawn.num_robots :
           /\ args.start_dist > 0
           /\ SqDist(spawn.positions[k], spawn.positions[j])
                  < args.start_dist * args.start_dist

====
